---------------------------- MODULE Spec2Model ----------------------------
(***************************************************************************)
(* A model of the asynchronous TCP server core (async_server.c,            *)
(* as_server.h, tcpserver.c): the pollfd registry, the circular io_buffer, *)
(* and the accept / disconnect lifecycle of client contexts.               *)
(*                                                                         *)
(* Four specifications share the module.  Spec runs the server lifecycle   *)
(* (as_bind, as_accept, as_disconnect, as_poll, as_cleanup).  BufSpec runs *)
(* the io_buffer operations (iobuff_append, iobuff_send) on one buffer of  *)
(* one accepted client.  RegSpec runs the registry operations (add_event,  *)
(* remove_event, poll_events) on one registry.  DrainSpec fills a buffer   *)
(* and then drains it with repeated iobuff_send calls.                     *)
(***************************************************************************)
EXTENDS Integers, Sequences, FiniteSets, TLC

(***************************************************************************)
(* Bounds of the model.                                                    *)
(***************************************************************************)
\* Capacity handed to create_pollfds and htable_create (MAX_CLIENTS in the
\* source is 1024; the registry algorithms do not depend on the value).
MaxDescs == 3
\* Descriptors the kernel can hand out: FirstFd .. FirstFd + MaxFds - 1.
MaxFds == 4
\* Client contexts that can be allocated at the same time.
MaxClients == 3
\* io_buffer objects that can be allocated at the same time.
MaxBufs == 6
\* Width in bits given to the head and tail cursors.  size_t has 64 bits in
\* the source; the narrower width brings the cursors' wraparound within reach.
CounterBits == 3
\* Largest capacity a buffer is allocated with or grown to (the allocator
\* refuses larger requests); stays below 2^CounterBits.
MaxCap == 4
\* Longest data handed to one iobuff_append.
MaxLen == 3

\* Descriptors 0, 1 and 2 are the standard streams of the process.
FirstFd == 3
\* as_server.h: #define BUFFER_SIZE 1024UL
BUFFER_SIZE == 1024
\* tcpserver.h: #define INVALID_FD -1
INVALID_FD == -1

Fds == FirstFd .. (FirstFd + MaxFds - 1)
ClientIds == 1 .. MaxClients
BufIds == 1 .. MaxBufs

\* A NULL pointer to a structure.
NULL == [null |-> TRUE]

\* poll(2) event bits, kept symbolic.
ListenerEvents == {"POLLIN", "POLLPRI"}
ClientEvents == {"POLLIN", "POLLOUT", "POLLHUP"}

\* Event handlers a caller can pass to as_accept.
Handlers == {"on_client"}

VARIABLES
    phase,      \* caller's view: "new", "bound" (as_bind returned 0), "failed",
                \* "cleaned" (as_cleanup returned)
    polled,     \* server->polled: NULL or the struct pollfds
    contexts,   \* server->contexts: NULL or the hash table
    info_fd,    \* server->info.fd
    openfds,    \* descriptors open in the process
    clients,    \* allocated struct client_context objects, by address
    iobufs,     \* allocated struct io_buffer objects of clients, by address
    crashed,    \* the process was terminated (failed assert / invalid access)
    call,       \* the last API call: its name, argument, result, effects in
                \* order and, for as_poll, the trace of its dispatching
    buffer,     \* the io_buffer under study in BufSpec
    unsent,     \* number of bytes appended to `buffer` and not yet accepted by send()
    wire        \* what the last iobuff_send handed to send(), and its result

srvVars == <<phase, polled, contexts, info_fd, openfds, clients, iobufs, crashed>>
bufVars == <<buffer, unsent, wire>>
vars == <<phase, polled, contexts, info_fd, openfds, clients, iobufs, crashed,
          call, buffer, unsent, wire>>

(***************************************************************************)
(* The pollfd registry.  Slots are indexed from 0 as in the source.        *)
(***************************************************************************)
\* One struct pollfd after calloc and the initialising loop.
EmptySlot == [fd |-> -1, events |-> {}, revents |-> {}]

create_pollfds(max_descs) ==
    [fds     |-> [idx \in 0 .. (max_descs - 1) |-> EmptySlot],
     polled  |-> 0,
     length  |-> max_descs,
     timeout |-> -1]

\* The slots currently watched, and their descriptors.
WatchedIdx(p) == 0 .. (p.polled - 1)
WatchedFds(p) == {p.fds[i].fd : i \in WatchedIdx(p)}

\* add_event that puts a new descriptor in slot 0 and the entry found there
\* in the first free slot.
add_event_prepends(p, fd, events) ==
    IF p.polled = p.length
    THEN [ret |-> -1, pollfds |-> p]
    ELSE IF \E i \in WatchedIdx(p) : p.fds[i].fd = fd
         THEN LET desc_idx == CHOOSE i \in WatchedIdx(p) : p.fds[i].fd = fd
              IN [ret |-> 0,
                  pollfds |-> [p EXCEPT !.fds[desc_idx].events = events,
                                        !.fds[desc_idx].revents = {}]]
         ELSE [ret |-> 0,
               pollfds |-> [p EXCEPT
                              !.fds[p.polled] = p.fds[0],
                              !.fds[0] = [fd |-> fd, events |-> events,
                                          revents |-> {}],
                              !.polled = @ + 1]]

\* add_event that, on a full registry, puts the new descriptor in the last slot.
add_event_evicts(p, fd, events) ==
    IF p.polled = p.length
    THEN [ret |-> -1,
          pollfds |-> IF \E i \in WatchedIdx(p) : p.fds[i].fd = fd
                      THEN p
                      ELSE [p EXCEPT !.fds[p.length - 1] =
                                        [fd |-> fd, events |-> events, revents |-> {}]]]
    ELSE IF \E i \in WatchedIdx(p) : p.fds[i].fd = fd
         THEN LET desc_idx == CHOOSE i \in WatchedIdx(p) : p.fds[i].fd = fd
              IN [ret |-> 0,
                  pollfds |-> [p EXCEPT !.fds[desc_idx].events = events,
                                        !.fds[desc_idx].revents = {}]]
         ELSE [ret |-> 0,
               pollfds |-> [p EXCEPT
                              !.fds[p.polled] = [fd |-> fd, events |-> events,
                                                 revents |-> {}],
                              !.polled = @ + 1]]

\* Result of add_event: the return value and the registry afterwards.
add_event(p, fd, events) ==
    IF p.polled = p.length
    THEN [ret |-> -1, pollfds |-> p]
    ELSE IF \E i \in WatchedIdx(p) : p.fds[i].fd = fd
         THEN LET desc_idx == CHOOSE i \in WatchedIdx(p) :
                                /\ p.fds[i].fd = fd
                                /\ \A j \in WatchedIdx(p) : p.fds[j].fd = fd => i <= j
              IN [ret |-> 0,
                  pollfds |-> [p EXCEPT !.fds[desc_idx].events = events,
                                        !.fds[desc_idx].revents = {}]]
         ELSE [ret |-> 0,
               pollfds |-> [p EXCEPT
                              !.fds[p.polled] = [fd |-> fd, events |-> events,
                                                 revents |-> {}],
                              !.polled = @ + 1]]

\* The packing loop without the invalidation of the slot an entry moved from.
RECURSIVE pack_loop_keeps_source(_, _, _, _)
pack_loop_keeps_source(fds, polledCount, desc_idx, idx) ==
    IF idx >= polledCount
    THEN fds
    ELSE IF fds[idx].fd < 0
         THEN pack_loop_keeps_source(fds, polledCount, desc_idx, idx + 1)
         ELSE pack_loop_keeps_source([fds EXCEPT ![desc_idx] = fds[idx]],
                                     polledCount, desc_idx + 1, idx + 1)

\* The packing loop of remove_event: idx runs from the cleared slot to polled.
RECURSIVE pack_loop(_, _, _, _)
pack_loop(fds, polledCount, desc_idx, idx) ==
    IF idx >= polledCount
    THEN fds
    ELSE IF fds[idx].fd < 0
         THEN pack_loop(fds, polledCount, desc_idx, idx + 1)
         ELSE LET moved == [fds EXCEPT ![desc_idx] = fds[idx]]
                  cleared == [moved EXCEPT ![idx].fd = -1]
              IN pack_loop(cleared, polledCount, desc_idx + 1, idx + 1)

\* remove_event that fills the gap with the last watched entry.
remove_event_swaps_last(p, fd) ==
    IF ~(\E i \in WatchedIdx(p) : p.fds[i].fd = fd)
    THEN p
    ELSE LET desc_idx == CHOOSE i \in WatchedIdx(p) : p.fds[i].fd = fd
             last == p.polled - 1
             moved == [p.fds EXCEPT ![desc_idx] = p.fds[last]]
         IN [p EXCEPT !.fds = [moved EXCEPT ![last] = EmptySlot],
                      !.polled = @ - 1]

remove_event(p, fd) ==
    IF p.polled = 0
    THEN p
    ELSE IF ~(\E i \in WatchedIdx(p) : p.fds[i].fd = fd)
         THEN p
         ELSE LET desc_idx == CHOOSE i \in WatchedIdx(p) :
                                /\ p.fds[i].fd = fd
                                /\ \A j \in WatchedIdx(p) : p.fds[j].fd = fd => i <= j
                  cleared == [p.fds EXCEPT ![desc_idx] = EmptySlot]
              IN [p EXCEPT !.fds = pack_loop(cleared, p.polled, desc_idx, desc_idx),
                           !.polled = @ - 1]

\* The observed masks poll(2) can report for one watched entry of an open
\* descriptor: nothing, or one of the requested readiness bits.
Observable(slot) == {{}} \cup {{e} : e \in slot.events \cap {"POLLIN", "POLLOUT"}}

\* poll_events: poll(2) over the first `polled` slots.  A failing poll leaves
\* the array alone; otherwise every watched slot gets its observed mask: none
\* for a negative descriptor, POLLNVAL for one that is not open, and what the
\* environment reports (env.revents) for the others.
poll_events(p, open, env) ==
    IF env.fail
    THEN [ret |-> -1, pollfds |-> p]
    ELSE LET fds == [i \in DOMAIN p.fds |->
                       IF i \notin WatchedIdx(p) THEN p.fds[i]
                       ELSE [p.fds[i] EXCEPT !.revents =
                               IF p.fds[i].fd < 0 THEN {}
                               ELSE IF p.fds[i].fd \notin open THEN {"POLLNVAL"}
                               ELSE env.revents[i]]]
         IN [ret |-> Cardinality({i \in WatchedIdx(p) : fds[i].revents /= {}}),
             pollfds |-> [p EXCEPT !.fds = fds]]

PollEnvs(p, open) ==
    {[fail |-> TRUE, revents |-> [i \in WatchedIdx(p) |-> {}]]}
    \cup {[fail |-> FALSE, revents |-> r] :
            r \in {q \in [WatchedIdx(p) -> {{}, {"POLLIN"}, {"POLLOUT"}}] :
                     \A i \in WatchedIdx(p) :
                        IF p.fds[i].fd \in open
                        THEN q[i] \in Observable(p.fds[i])
                        ELSE q[i] = {}}}

(***************************************************************************)
(* The descriptor-keyed hash table (htable.h is not part of the sources;   *)
(* it is modelled from its interface as a finite map).                     *)
(***************************************************************************)
EmptyMap == [k \in {} |-> 0]

htable_create(capacity) == [capacity |-> capacity, entries |-> EmptyMap]

htable_insert(t, key, value) ==
    [t EXCEPT !.entries = [k \in (DOMAIN t.entries) \cup {key} |->
                              IF k = key THEN value ELSE t.entries[k]]]

htable_remove(t, key) ==
    [t EXCEPT !.entries = [k \in (DOMAIN t.entries) \ {key} |-> t.entries[k]]]

\* htable_get: the value stored under key, or 0 (no context) when absent.
htable_get(t, key) ==
    IF key \in DOMAIN t.entries THEN t.entries[key] ELSE 0


(***************************************************************************)
(* The state the server functions work on, as one record, so that each     *)
(* function is an operator from the state before to the state after.       *)
(* `log` lists the effects of the running call in program order, and       *)
(* `dispatch` what one as_poll iteration observed, invoked and was called  *)
(* back with.                                                              *)
(***************************************************************************)
World ==
    [polled |-> polled, contexts |-> contexts, info_fd |-> info_fd,
     openfds |-> openfds, clients |-> clients, iobufs |-> iobufs,
     crashed |-> FALSE, returned |-> FALSE, ret |-> 0, log |-> <<>>,
     dispatch |-> <<>>]

Effect(w, op, arg) == [w EXCEPT !.log = Append(@, [op |-> op, arg |-> arg])]

\* The function returns `value` to its caller.
Return(w, value) == [w EXCEPT !.returned = TRUE, !.ret = value]

\* The process is terminated inside the call (failed assert, invalid access).
Abort(w, why) == [Effect(w, why, 0) EXCEPT !.crashed = TRUE]

Without(f, key) == [k \in (DOMAIN f) \ {key} |-> f[k]]
With(f, key, value) ==
    [k \in (DOMAIN f) \cup {key} |-> IF k = key THEN value ELSE f[k]]

\* close(2) on a descriptor; closing one that is not open fails with EBADF.
sys_close(w, fd) ==
    IF fd \in w.openfds
    THEN Effect([w EXCEPT !.openfds = @ \ {fd}], "close", fd)
    ELSE Effect(w, "close_EBADF", fd)

\* client_close: close the socket and mark the descriptor invalid on success.
client_close(w, c) ==
    LET fd == w.clients[c].fd
        w1 == sys_close(w, fd)
    IN IF fd \in w.openfds
       THEN [w1 EXCEPT !.clients[c].fd = INVALID_FD]
       ELSE w1

\* free(client)
free_client(w, c) ==
    Effect([w EXCEPT !.clients = Without(@, c)], "free_client", c)

\* iobuff_alloc(size) placing the new object at address b.
iobuff_alloc(w, b, size) ==
    Effect([w EXCEPT !.iobufs = With(@, b, [size |-> size, head |-> 0,
                                            tail |-> 0, heap |-> FALSE])],
           "iobuff_alloc", b)

\* iobuff_free(buffer) is defined only for a non-NULL buffer whose storage
\* is a heap block of its own; iobuff_alloc places the storage inside the
\* header's block, so free(buffer->buffer) is handed an interior pointer.
iobuff_free_defined(w, b) == b /= 0 /\ b \in DOMAIN w.iobufs /\ w.iobufs[b].heap

iobuff_free(w, b) ==
    IF b = 0
    THEN Effect(w, "iobuff_free_NULL", 0)
    ELSE Effect([w EXCEPT !.iobufs = Without(@, b)], "iobuff_free", b)

(***************************************************************************)
(* as_bind.  env.fail names the step the environment makes fail ("none"    *)
(* for none); env.fd is the descriptor socket(2) returns.                  *)
(***************************************************************************)
destroy_pollfds(w) == Effect([w EXCEPT !.polled = NULL], "destroy_pollfds", 0)
htable_destroy(w) == Effect([w EXCEPT !.contexts = NULL], "htable_destroy", 0)

bind_error_poll(w, retvalue) == Return(htable_destroy(w), retvalue)
bind_error_server(w, retvalue) == bind_error_poll(destroy_pollfds(w), retvalue)

as_bind_run(w, env) ==
    IF env.fail = "htable_create"
    THEN Return([w EXCEPT !.contexts = NULL], -1)
    ELSE
    LET w1 == [w EXCEPT !.contexts = htable_create(MaxDescs)] IN
    IF env.fail = "create_pollfds"
    THEN bind_error_poll([w1 EXCEPT !.polled = NULL], -1)
    ELSE
    LET w2 == [w1 EXCEPT !.polled = create_pollfds(MaxDescs)] IN
    IF env.fail = "server_bind"
    THEN bind_error_server([w2 EXCEPT !.info_fd = INVALID_FD], -1)
    ELSE
    LET w3 == Effect([w2 EXCEPT !.info_fd = env.fd, !.openfds = @ \cup {env.fd}],
                     "server_bind", env.fd) IN
    IF env.fail \in {"F_GETFL", "F_SETFL"}
    THEN bind_error_server(w3, 0)
    ELSE
    LET added == add_event(w3.polled, w3.info_fd, ListenerEvents) IN
    IF added.ret < 0
    THEN bind_error_server(w3, 0)
    ELSE Return(Effect([w3 EXCEPT !.polled = added.pollfds], "add_event", env.fd), 0)

\* The descriptor socket(2) and accept(2) return: the lowest-numbered one
\* that is not open in the process; none when all of Fds are open (EMFILE).
NextFd(open) ==
    IF Fds \ open = {} THEN {}
    ELSE {CHOOSE d \in Fds \ open : \A e \in Fds \ open : d <= e}

BindEnvs ==
    {[fail |-> f, fd |-> INVALID_FD] : f \in {"htable_create", "create_pollfds", "server_bind"}}
    \cup {[fail |-> f, fd |-> d] : f \in {"F_GETFL", "F_SETFL", "none"}, d \in NextFd(openfds)}

(***************************************************************************)
(* as_accept.  env.fail names the step the environment makes fail; env.c,  *)
(* env.input and env.output are the addresses the allocator returns,       *)
(* env.fd the descriptor accept(2) returns, env.ub the outcome when the    *)
(* unwind executes iobuff_free outside its defined behaviour.              *)
(***************************************************************************)
accept_error_free(w, c) == Return(free_client(w, c), 0)

accept_error_disconnect(w, c) == accept_error_free(client_close(w, c), c)

accept_error_in_buffer(w, c, ub) ==
    IF ~iobuff_free_defined(w, w.clients[c].input) /\ ub = "abort"
    THEN Abort(w, "abort_in_iobuff_free")
    ELSE accept_error_disconnect(iobuff_free(w, w.clients[c].input), c)

accept_error_out_buffer(w, c, ub) ==
    IF ~iobuff_free_defined(w, w.clients[c].output) /\ ub = "abort"
    THEN Abort(w, "abort_in_iobuff_free")
    ELSE accept_error_in_buffer(iobuff_free(w, w.clients[c].output), c, ub)

as_accept_run(w, handler, env) ==
    IF env.fail = "client_alloc"
    THEN Return(w, 0)
    ELSE
    LET c == env.c
        w1 == Effect([w EXCEPT !.clients =
                        With(@, c, [fd |-> INVALID_FD, input |-> 0, output |-> 0,
                                    event_handler |-> handler])],
                     "client_alloc", c)
    IN
    IF env.fail = "server_accept"
    THEN accept_error_free(w1, c)
    ELSE
    LET w2 == Effect([w1 EXCEPT !.clients[c].fd = env.fd,
                                !.openfds = @ \cup {env.fd}],
                     "server_accept", env.fd)
    IN
    IF env.fail \in {"F_GETFL", "F_SETFL"}
    THEN accept_error_disconnect(w2, c)
    ELSE
    IF w2.polled = NULL
    THEN Abort(w2, "abort_in_add_event")
    ELSE
    LET added == add_event(w2.polled, env.fd, ClientEvents) IN
    IF added.ret < 0
    THEN accept_error_disconnect(w2, c)
    ELSE
    LET w3 == Effect([w2 EXCEPT !.polled = added.pollfds], "add_event", env.fd) IN
    IF env.fail = "htable_insert"
    THEN accept_error_disconnect(w3, c)
    ELSE
    LET w4 == Effect([w3 EXCEPT !.contexts = htable_insert(@, env.fd, c)],
                     "htable_insert", env.fd)
    IN
    IF env.fail = "input"
    THEN accept_error_in_buffer(w4, c, env.ub)
    ELSE
    LET w5 == [iobuff_alloc(w4, env.input, BUFFER_SIZE)
                  EXCEPT !.clients[c].input = env.input]
    IN
    IF env.fail = "output"
    THEN accept_error_out_buffer(w5, c, env.ub)
    ELSE
    LET w6 == [iobuff_alloc(w5, env.output, BUFFER_SIZE)
                  EXCEPT !.clients[c].output = env.output]
    IN Return(w6, c)

\* The allocator is first-fit: calloc returns the lowest free address.  The
\* code never inspects an address, so the choice matters only where a stale
\* pointer meets a reused address, which first-fit makes most likely.
Lowest(S) == CHOOSE x \in S : \A y \in S : x <= y

\* What the environment can do to one as_accept call in the state w: any
\* step may fail; accept(2) returns the lowest descriptor that is not open.
AcceptEnvsOf(w) ==
    LET freeC == ClientIds \ DOMAIN w.clients
        freeB == BufIds \ DOMAIN w.iobufs
        freeFd == NextFd(w.openfds)
        env(f, c, fd, bi, bo, ub) ==
            [fail |-> f, c |-> c, fd |-> fd, input |-> bi, output |-> bo, ub |-> ub]
    IN  {env("client_alloc", 0, INVALID_FD, 0, 0, "abort")}
        \cup (IF freeC = {} THEN {} ELSE
              LET c == Lowest(freeC) IN
              {env("server_accept", c, INVALID_FD, 0, 0, "abort")}
              \cup {env(f, c, fd, 0, 0, "abort") :
                      f \in {"F_GETFL", "F_SETFL", "htable_insert"}, fd \in freeFd}
              \cup {env("input", c, fd, 0, 0, ub) :
                      fd \in freeFd, ub \in {"abort", "continue"}}
              \cup (IF freeB = {} THEN {} ELSE
                    LET bi == Lowest(freeB) IN
                    {env("output", c, fd, bi, 0, ub) :
                       fd \in freeFd, ub \in {"abort", "continue"}}
                    \cup (IF freeB = {bi} THEN {} ELSE
                          {env("none", c, fd, bi, Lowest(freeB \ {bi}), "abort") :
                             fd \in freeFd})))

AcceptEnvs == AcceptEnvsOf(World)

(***************************************************************************)
(* as_disconnect(server, client).                                          *)
(***************************************************************************)
\* as_disconnect that forgets the hash table.
as_disconnect_keeps_entry(w, c) ==
    LET fd == w.clients[c].fd
        w1 == Effect([w EXCEPT !.polled = remove_event(@, fd)], "remove_event", fd)
        w3 == client_close(w1, c)
    IN  Return(free_client(w3, c), 0)

\* as_disconnect that leaves the descriptor in the registry.
as_disconnect_keeps_watch(w, c) ==
    LET fd == w.clients[c].fd
        w2 == Effect([w EXCEPT !.contexts = htable_remove(@, fd)], "htable_remove", fd)
        w3 == client_close(w2, c)
    IN  Return(free_client(w3, c), 0)

\* as_disconnect that closes the socket and frees the context while the
\* registry and the hash table still refer to them.
as_disconnect_leaves_registered(w, c) ==
    Return(free_client(client_close(w, c), c), 0)

as_disconnect_run(w, c) ==
    LET fd == w.clients[c].fd
        w1 == Effect([w EXCEPT !.polled = remove_event(@, fd)], "remove_event", fd)
        w2 == Effect([w1 EXCEPT !.contexts = htable_remove(@, fd)], "htable_remove", fd)
        w3 == client_close(w2, c)
    IN  Return(free_client(w3, c), 0)

(***************************************************************************)
(* as_poll(server, data): one iteration of the dispatch loop.  The         *)
(* callbacks are code of the caller; what they do to the server is drawn   *)
(* here: the listener's callback calls as_accept at most once, a           *)
(* connection's callback calls as_disconnect at most once, on its own      *)
(* context or on another live one.  as_poll_runs is the set of states one  *)
(* iteration can end in.                                                   *)
(***************************************************************************)
Dispatched(w, kind, fd, c, revents) ==
    [w EXCEPT !.dispatch = Append(@, [kind |-> kind, fd |-> fd, client |-> c,
                                      revents |-> revents])]

\* Back in as_poll after a callback returned.
Resume(w) == IF w.crashed THEN w ELSE [w EXCEPT !.returned = FALSE, !.ret = 0]

\* The observed masks poll(2) left in the watched slots, noted slot by slot.
RECURSIVE NoteReady(_, _)
NoteReady(w, i) ==
    IF i >= w.polled.polled
    THEN w
    ELSE IF w.polled.fds[i].revents = {}
         THEN NoteReady(w, i + 1)
         ELSE NoteReady(Dispatched(w, "ready", w.polled.fds[i].fd,
                                   htable_get(w.contexts, w.polled.fds[i].fd),
                                   w.polled.fds[i].revents), i + 1)

\* server->event_handler(server, server_events, data).  No function of the
\* library writes server->event_handler (the as_bind defined here has no
\* handler parameter): the pointer holds the caller's top-level handler only
\* if the caller stored it there itself, and otherwise whatever the storage
\* of the server struct held, and the call through it does not come back.
ListenerCallback(w) ==
    LET fd == w.polled.fds[0].fd
        revents == w.polled.fds[0].revents
        called == Dispatched(w, "top_level", fd, 0, revents)
        accepting(h, env) ==
            LET a == as_accept_run(Dispatched(called, "accept", env.fd, 0, {}), h, env)
            IN Resume(Dispatched(a, "accepted", env.fd, a.ret, {}))
    IN {Abort(Dispatched(w, "unset_handler", fd, 0, revents), "abort_unset_handler")}
       \cup {called}
       \cup {accepting(h, env) : h \in Handlers, env \in AcceptEnvsOf(w)}

\* client->event_handler(client, revents, data)
ClientCallback(w, c) ==
    {w} \cup {Resume(as_disconnect_run(
                       Dispatched(w, "disconnect", w.clients[t].fd, t, {}), t)) :
                t \in DOMAIN w.clients}

\* The loop over the slots 1 .. polled - 1, from slot i on.  The bound and
\* the slot are read from the registry as the callbacks left it.
RECURSIVE poll_loop(_, _)
poll_loop(w, i) ==
    IF w.crashed
    THEN {w}
    ELSE IF ~(i < w.polled.polled)
    THEN {Return(w, 0)}
    ELSE IF w.polled.fds[i].revents = {}
    THEN poll_loop(w, i + 1)
    ELSE
    LET fd == w.polled.fds[i].fd
        revents == w.polled.fds[i].revents
        client == htable_get(w.contexts, fd)
    IN
    IF client = 0
    THEN {Abort(Dispatched(w, "not_found", fd, 0, revents), "abort_null_client")}
    ELSE IF client \notin DOMAIN w.clients
    THEN \* the table holds the address of a freed context
         {Abort(Dispatched(w, "freed", fd, client, revents), "abort_freed_client")}
         \cup poll_loop(Dispatched(w, "freed", fd, client, revents), i + 1)
    ELSE UNION {poll_loop(w2, i + 1) :
                  w2 \in ClientCallback(Dispatched(w, "client", fd, client, revents),
                                        client)}

\* as_poll that goes on to dispatch after a failed poll().
as_poll_dispatches_anyway(w, env) ==
    IF w.polled = NULL
    THEN {Abort(w, "abort_in_poll_events")}
    ELSE
    LET polling == poll_events(w.polled, w.openfds, env)
        w1 == NoteReady(Effect([w EXCEPT !.polled = polling.pollfds],
                               IF polling.ret < 0 THEN "poll_failed" ELSE "poll", 0), 0)
        server_events == w1.polled.fds[0].revents
        after_listener ==
            IF server_events /= {}
            THEN ListenerCallback(Dispatched(w1, "listener", w1.polled.fds[0].fd, 0,
                                             server_events))
            ELSE {w1}
    IN UNION {poll_loop(w2, 1) : w2 \in after_listener}

as_poll_runs(w, env) ==
    IF w.polled = NULL
    THEN {Abort(w, "abort_in_poll_events")}
    ELSE
    LET polling == poll_events(w.polled, w.openfds, env) IN
    IF polling.ret < 0
    THEN {Return(Effect(w, "poll_failed", 0), -1)}
    ELSE
    LET w1 == NoteReady(Effect([w EXCEPT !.polled = polling.pollfds], "poll", 0), 0)
        server_events == w1.polled.fds[0].revents
        after_listener ==
            IF server_events /= {}
            THEN ListenerCallback(Dispatched(w1, "listener", w1.polled.fds[0].fd, 0,
                                             server_events))
            ELSE {w1}
    IN UNION {poll_loop(w2, 1) : w2 \in after_listener}

\* The outcomes of poll(2) for the server's registry, if it has one.
ServerPollEnvs ==
    IF polled = NULL
    THEN {[fail |-> TRUE, revents |-> EmptyMap]}
    ELSE PollEnvs(polled, openfds)

(***************************************************************************)
(* as_cleanup(server).                                                     *)
(***************************************************************************)
\* The closing loop that leaves the listener's slot out.
RECURSIVE cleanup_close_skips_listener(_, _)
cleanup_close_skips_listener(w, idx) ==
    IF idx >= w.polled.polled
    THEN w
    ELSE IF idx = 0
         THEN cleanup_close_skips_listener(w, idx + 1)
         ELSE cleanup_close_skips_listener(sys_close(w, w.polled.fds[idx].fd),
                                           idx + 1)

\* The loop closing fds[i] for i from idx below polled.
RECURSIVE cleanup_close(_, _)
cleanup_close(w, idx) ==
    IF idx >= w.polled.polled
    THEN w
    ELSE cleanup_close(sys_close(w, w.polled.fds[idx].fd), idx + 1)

as_cleanup_run(w) ==
    LET w1 == IF w.polled /= NULL
              THEN destroy_pollfds(cleanup_close(w, 0))
              ELSE w
    IN Return(htable_destroy(w1), 0)

(***************************************************************************)
(* The circular io_buffer.  head and tail are unsigned counters of         *)
(* CounterBits bits; data is the storage, indexed from 0; heap tells       *)
(* whether the storage is a heap block of its own (after a realloc) or     *)
(* lies inside the block of the header (after iobuff_alloc).               *)
(***************************************************************************)
Modulus == 2 ^ CounterBits
Wrap(x) == x % Modulus
\* The code never inspects a byte, so two byte values tell any two bytes apart.
Byte == {0, 1}

RECURSIVE BitAnd(_, _)
BitAnd(a, b) ==
    IF a = 0 \/ b = 0 THEN 0
    ELSE (a % 2) * (b % 2) + 2 * BitAnd(a \div 2, b \div 2)

RECURSIVE BitOr(_, _)
BitOr(a, b) ==
    IF a = 0 THEN b
    ELSE IF b = 0 THEN a
    ELSE (IF a % 2 = 1 \/ b % 2 = 1 THEN 1 ELSE 0) + 2 * BitOr(a \div 2, b \div 2)

\* x >> k
RECURSIVE Shr(_, _)
Shr(x, k) == IF k = 0 \/ x = 0 THEN x ELSE Shr(x \div 2, k - 1)

\* No rounding at all.
size_roundup_keeps(size) == size

size_roundup(size) ==
    IF BitAnd(size, size - 1) /= 0
    THEN LET s1 == BitOr(size, Shr(size, 1))
             s2 == BitOr(s1, Shr(s1, 2))
             s3 == BitOr(s2, Shr(s2, 4))
             s4 == BitOr(s3, Shr(s3, 8))
             s5 == BitOr(s4, Shr(s4, 16))
             s6 == BitOr(s5, Shr(s5, 32))
         IN s6 + 1
    ELSE size

\* The two results of the conditional exchanged.
min_swapped(a, b) == IF a < b THEN b ELSE a

min(a, b) == IF a < b THEN a ELSE b

\* The io_buffer iobuff_alloc(size) returns: calloc zeroes cursors and storage.
iobuff_new(size) ==
    [size |-> size, head |-> 0, tail |-> 0,
     data |-> [i \in 0 .. (size_roundup(size) - 1) |-> 0], heap |-> FALSE]

iobuff_empty(b) == b.head = b.tail

\* The fullness test on the cursors as plain integers, without the wrap of
\* the unsigned difference.
iobuff_full_unwrapped(b) == b.head - b.tail = b.size

iobuff_full(b) == Wrap(b.head - b.tail) = b.size

iobuff_space(b) ==
    IF b.head >= b.tail THEN b.size - (b.head - b.tail) ELSE b.tail - b.head

\* memcpy(storage + at, src + from, n), src being a sequence indexed from 1.
memcpy(storage, at, src, from, n) ==
    [i \in DOMAIN storage |->
        IF at <= i /\ i < at + n THEN src[from + (i - at) + 1] ELSE storage[i]]

\* realloc to new_size bytes: the old bytes keep their offsets, the bytes
\* beyond them are indeterminate (`fresh`).
realloc(b, new_size, fresh) ==
    [b EXCEPT !.data = [i \in 0 .. (new_size - 1) |->
                          IF i \in DOMAIN b.data THEN b.data[i] ELSE fresh[i]],
              !.size = new_size,
              !.heap = TRUE]

\* Whether this call takes the reallocation branch.
append_reallocates(b, data, can_reallocate) ==
    /\ Len(data) /= 0
    /\ ~iobuff_full(b)
    /\ iobuff_space(b) < Len(data)
    /\ can_reallocate

\* The copy with the second chunk taken from the start of the data again.
append_copy_rereads(b, data) ==
    LET length == Len(data)
        whead == BitAnd(b.head, b.size - 1)
        wtail == BitAnd(b.tail, b.size - 1)
    IN IF wtail <= whead
       THEN LET first_chunk == IF length < b.size - whead THEN length ELSE b.size - whead
                second_chunk == IF length - first_chunk < wtail
                                THEN length - first_chunk ELSE wtail
                total == first_chunk + second_chunk
                d1 == [i \in DOMAIN b.data |->
                         IF whead <= i /\ i < whead + first_chunk
                         THEN data[(i - whead) + 1] ELSE b.data[i]]
                d2 == [i \in DOMAIN d1 |->
                         IF i < second_chunk THEN data[i + 1] ELSE d1[i]]
            IN [buffer |-> [b EXCEPT !.data = d2, !.head = Wrap(@ + total)],
                ret |-> total, crashed |-> FALSE]
       ELSE LET chunk == IF length < wtail - whead THEN length ELSE wtail - whead
            IN [buffer |-> [b EXCEPT !.data =
                                 [i \in DOMAIN b.data |->
                                    IF whead <= i /\ i < whead + chunk
                                    THEN data[(i - whead) + 1] ELSE b.data[i]],
                                     !.head = Wrap(@ + chunk)],
                ret |-> chunk, crashed |-> FALSE]

\* The copy at the end of iobuff_append, in at most two chunks.
append_copy(b, data) ==
    LET length == Len(data)
        whead == BitAnd(b.head, b.size - 1)
        wtail == BitAnd(b.tail, b.size - 1)
    IN IF wtail <= whead
       THEN LET first_chunk == min(length, b.size - whead)
                second_chunk == min(length - first_chunk, wtail)
                total == first_chunk + second_chunk
                d1 == memcpy(b.data, whead, data, 0, first_chunk)
                d2 == memcpy(d1, 0, data, first_chunk, second_chunk)
            IN [buffer |-> [b EXCEPT !.data = d2, !.head = Wrap(@ + total)],
                ret |-> total, crashed |-> FALSE]
       ELSE LET chunk == min(length, wtail - whead)
            IN [buffer |-> [b EXCEPT !.data = memcpy(b.data, whead, data, 0, chunk),
                                     !.head = Wrap(@ + chunk)],
                ret |-> chunk, crashed |-> FALSE]

\* iobuff_append(buffer, data, length, can_reallocate); env is the outcome of
\* realloc: "fail", or "ok" with the indeterminate bytes of the new block, and
\* env.ub the outcome of handing realloc a pointer it did not return.
iobuff_append_run(b, data, can_reallocate, env) ==
    IF Len(data) = 0 \/ iobuff_full(b)
    THEN [buffer |-> b, ret |-> 0, crashed |-> FALSE]
    ELSE IF append_reallocates(b, data, can_reallocate)
         THEN IF ~b.heap /\ env.ub = "abort"
              THEN [buffer |-> b, ret |-> 0, crashed |-> TRUE]
              ELSE IF env.realloc = "fail"
                   THEN [buffer |-> b, ret |-> 0, crashed |-> FALSE]
                   ELSE append_copy(realloc(b, size_roundup(b.size + Len(data)),
                                            env.fresh), data)
         ELSE append_copy(b, data)

AppendEnvs(b, data, can_reallocate) ==
    IF ~append_reallocates(b, data, can_reallocate)
    THEN {[realloc |-> "none", ub |-> "none", fresh |-> EmptyMap]}
    ELSE LET new_size == size_roundup(b.size + Len(data)) IN
         {[realloc |-> "fail", ub |-> "continue", fresh |-> EmptyMap]}
         \cup (IF b.heap THEN {}
               ELSE {[realloc |-> "fail", ub |-> "abort", fresh |-> EmptyMap]})
         \cup (IF new_size > MaxCap THEN {}
               ELSE {[realloc |-> "ok", ub |-> "continue", fresh |-> f] :
                       f \in [b.size .. (new_size - 1) -> Byte]})

\* The bytes of the pending range tail..head, read through the index mask.
Pending(b) ==
    [i \in 1 .. Wrap(b.head - b.tail) |->
        b.data[BitAnd(Wrap(b.tail + (i - 1)), b.size - 1)]]

\* The `length` bytes send() reads starting at buffer->buffer + wtail; offsets
\* at or beyond the end of the storage read indeterminate bytes (`oob`).
ReadFrom(b, wtail, length, oob) ==
    [i \in 1 .. length |->
        IF wtail + (i - 1) \in DOMAIN b.data
        THEN b.data[wtail + (i - 1)]
        ELSE oob[wtail + (i - 1)]]

\* A send error that also tears the connection down.
send_error_disconnects(w, c, b, handed, wrapped) ==
    [w |-> as_disconnect_run(w, c), buffer |-> b, ret |-> -1, invoked |-> TRUE,
     handed |-> handed, wrap_live |-> wrapped]

\* The branch of iobuff_send taken when send() fails: log, return -1; the
\* temporary region, if one was allocated, is still allocated.
send_error(w, c, b, handed, wrapped) ==
    [w |-> w, buffer |-> b, ret |-> -1, invoked |-> TRUE,
     handed |-> handed, wrap_live |-> wrapped]

\* iobuff_send that moves the tail past everything it handed to send(),
\* whatever send() accepted.
iobuff_send_drops_remainder(w, c, b, env) ==
    LET length == Wrap(b.head - b.tail)
        whead == BitAnd(b.head, b.size - 1)
        wtail == BitAnd(b.tail, b.size - 1)
        quiet == [w |-> w, buffer |-> b, ret |-> 0, invoked |-> FALSE,
                  handed |-> <<>>, wrap_live |-> FALSE]
    IN
    IF length = 0
    THEN quiet
    ELSE
    IF b.tail > b.head /\ ~env.calloc_ok
    THEN [quiet EXCEPT !.ret = -1]
    ELSE
    LET wrapped == b.tail > b.head
        tail_size == b.size - wtail
        buffer_wrap ==
            [i \in 1 .. b.size |->
                IF i <= tail_size THEN b.data[wtail + (i - 1)]
                ELSE IF i <= tail_size + whead THEN b.data[i - tail_size - 1]
                ELSE 0]
        handed == IF wrapped
                  THEN SubSeq(buffer_wrap, 1, length)
                  ELSE ReadFrom(b, wtail, length, env.oob)
    IN
    IF env.sent < 0
    THEN send_error(w, c, b, handed, wrapped)
    ELSE [w |-> w, buffer |-> [b EXCEPT !.tail = Wrap(@ + length)],
          ret |-> env.sent, invoked |-> TRUE, handed |-> handed,
          wrap_live |-> FALSE]

\* iobuff_send(client, buffer).  env.calloc_ok: the temporary region could be
\* allocated; env.sent: what send() returns; env.oob: the bytes beyond the
\* storage.  The result carries the server state, which the function is
\* handed through `client` and leaves alone.
iobuff_send_run(w, c, b, env) ==
    LET length == Wrap(b.head - b.tail)
        whead == BitAnd(b.head, b.size - 1)
        wtail == BitAnd(b.tail, b.size - 1)
        quiet == [w |-> w, buffer |-> b, ret |-> 0, invoked |-> FALSE,
                  handed |-> <<>>, wrap_live |-> FALSE]
    IN
    IF length = 0
    THEN quiet
    ELSE
    IF b.tail > b.head /\ ~env.calloc_ok
    THEN [quiet EXCEPT !.ret = -1]
    ELSE
    LET wrapped == b.tail > b.head
        tail_size == b.size - wtail
        buffer_wrap ==
            [i \in 1 .. b.size |->
                IF i <= tail_size THEN b.data[wtail + (i - 1)]
                ELSE IF i <= tail_size + whead THEN b.data[i - tail_size - 1]
                ELSE 0]
        handed == IF wrapped
                  THEN SubSeq(buffer_wrap, 1, length)
                  ELSE ReadFrom(b, wtail, length, env.oob)
    IN
    IF env.sent < 0
    THEN send_error(w, c, b, handed, wrapped)
    ELSE [w |-> w, buffer |-> [b EXCEPT !.tail = Wrap(@ + env.sent)],
          ret |-> env.sent, invoked |-> TRUE, handed |-> handed,
          wrap_live |-> FALSE]

SendEnvs(b) ==
    LET length == Wrap(b.head - b.tail)
        wtail == BitAnd(b.tail, b.size - 1)
        beyond == {i \in wtail .. (wtail + length - 1) : i \notin DOMAIN b.data}
    IN IF length = 0
       THEN {[calloc_ok |-> TRUE, sent |-> 0, oob |-> EmptyMap]}
       ELSE IF b.tail > b.head
            THEN {[calloc_ok |-> FALSE, sent |-> 0, oob |-> EmptyMap]}
                 \cup {[calloc_ok |-> TRUE, sent |-> n, oob |-> EmptyMap] :
                         n \in -1 .. length}
            ELSE {[calloc_ok |-> TRUE, sent |-> n, oob |-> f] :
                    n \in -1 .. length, f \in [beyond -> Byte]}

(***************************************************************************)
(* Actions of the server lifecycle.                                        *)
(***************************************************************************)
Commit(w, op, arg) ==
    /\ polled' = w.polled
    /\ contexts' = w.contexts
    /\ info_fd' = w.info_fd
    /\ openfds' = w.openfds
    /\ clients' = w.clients
    /\ iobufs' = w.iobufs
    /\ crashed' = w.crashed
    /\ call' = [op |-> op, arg |-> arg, data |-> <<>>, flag |-> FALSE,
                returned |-> w.returned, ret |-> w.ret, log |-> w.log,
                dispatch |-> w.dispatch]

NoCall == [op |-> "none", arg |-> 0, data |-> <<>>, flag |-> FALSE,
           returned |-> FALSE, ret |-> 0, log |-> <<>>, dispatch |-> <<>>]
NoBuffer == [size |-> 0, head |-> 0, tail |-> 0, data |-> EmptyMap, heap |-> FALSE]
NoWire == [invoked |-> FALSE, handed |-> <<>>, wrap_live |-> FALSE]

Init ==
    /\ phase = "new"
    /\ polled = NULL
    /\ contexts = NULL
    /\ info_fd = INVALID_FD
    /\ openfds = {}
    /\ clients = EmptyMap
    /\ iobufs = EmptyMap
    /\ crashed = FALSE
    /\ call = NoCall
    /\ buffer = NoBuffer
    /\ unsent = 0
    /\ wire = NoWire

as_bind ==
    /\ phase = "new"
    /\ \E env \in BindEnvs :
         \E w \in {as_bind_run(World, env)} :
         /\ Commit(w, "as_bind", 0)
         /\ phase' = IF w.ret = 0 THEN "bound" ELSE "failed"
    /\ UNCHANGED bufVars

as_accept ==
    /\ phase = "bound"
    /\ ~crashed
    /\ \E handler \in Handlers, env \in AcceptEnvs :
         \E w \in {as_accept_run(World, handler, env)} :
           Commit(w, "as_accept", handler)
    /\ UNCHANGED <<phase, bufVars>>

as_disconnect ==
    /\ phase = "bound"
    /\ ~crashed
    /\ \E c \in DOMAIN clients :
         \E w \in {as_disconnect_run(World, c)} : Commit(w, "as_disconnect", c)
    /\ UNCHANGED <<phase, bufVars>>

as_poll ==
    /\ phase = "bound"
    /\ ~crashed
    /\ \E env \in ServerPollEnvs :
         \E w \in as_poll_runs(World, env) : Commit(w, "as_poll", 0)
    /\ UNCHANGED <<phase, bufVars>>

as_cleanup ==
    /\ phase = "bound"
    /\ ~crashed
    /\ \E w \in {as_cleanup_run(World)} : Commit(w, "as_cleanup", 0)
    /\ phase' = "cleaned"
    /\ UNCHANGED bufVars

Next == as_bind \/ as_accept \/ as_disconnect \/ as_poll \/ as_cleanup

Spec == Init /\ [][Next]_vars

(***************************************************************************)
(* The buffer specification.  It starts from the state of a server that    *)
(* has bound its listener and accepted one client, with a buffer freshly   *)
(* returned by iobuff_alloc(size) for a power-of-two size; the client is   *)
(* the one handed to iobuff_send.  For an iobuff_append, `call` holds the  *)
(* capacity the buffer had when the call was made in arg.                  *)
(***************************************************************************)
NewWorld ==
    [polled |-> NULL, contexts |-> NULL, info_fd |-> INVALID_FD,
     openfds |-> {}, clients |-> EmptyMap, iobufs |-> EmptyMap,
     crashed |-> FALSE, returned |-> FALSE, ret |-> 0, log |-> <<>>,
     dispatch |-> <<>>]

BoundWorld == as_bind_run(NewWorld, [fail |-> "none", fd |-> FirstFd])

ServingWorld ==
    as_accept_run(BoundWorld, "on_client",
                  [fail |-> "none", c |-> 1, fd |-> FirstFd + 1,
                   input |-> 1, output |-> 2, ub |-> "abort"])

\* The server state BufSpec starts from is one Spec reaches.
ServingReached ==
    /\ phase = "bound"
    /\ polled = ServingWorld.polled
    /\ contexts = ServingWorld.contexts
    /\ openfds = ServingWorld.openfds
    /\ clients = ServingWorld.clients
    /\ iobufs = ServingWorld.iobufs

\* The client whose buffer is under study.
TheClient == ServingWorld.ret

Capacities == {n \in 1 .. MaxCap : BitAnd(n, n - 1) = 0}

DataSet == UNION {[1 .. n -> Byte] : n \in 0 .. MaxLen}

BufInit ==
    /\ phase = "bound"
    /\ polled = ServingWorld.polled
    /\ contexts = ServingWorld.contexts
    /\ info_fd = ServingWorld.info_fd
    /\ openfds = ServingWorld.openfds
    /\ clients = ServingWorld.clients
    /\ iobufs = ServingWorld.iobufs
    /\ crashed = FALSE
    /\ call = NoCall
    /\ \E size \in Capacities : buffer = iobuff_new(size)
    /\ unsent = 0
    /\ wire = NoWire

iobuff_append ==
    /\ ~crashed
    /\ \E data \in DataSet, can_reallocate \in BOOLEAN :
         \E env \in AppendEnvs(buffer, data, can_reallocate) :
           \E r \in {iobuff_append_run(buffer, data, can_reallocate, env)} :
           /\ buffer' = r.buffer
           /\ crashed' = r.crashed
           /\ unsent' = unsent + r.ret
           /\ call' = [op |-> "iobuff_append", arg |-> buffer.size, data |-> data,
                       flag |-> can_reallocate, returned |-> ~r.crashed,
                       ret |-> r.ret, log |-> <<>>, dispatch |-> <<>>]
    /\ wire' = NoWire
    /\ UNCHANGED <<phase, polled, contexts, info_fd, openfds, clients, iobufs>>

iobuff_send ==
    /\ ~crashed
    /\ TheClient \in DOMAIN clients
    /\ \E env \in SendEnvs(buffer) :
         \E r \in {iobuff_send_run(World, TheClient, buffer, env)} :
         /\ buffer' = r.buffer
         /\ unsent' = IF r.ret > 0 THEN unsent - r.ret ELSE unsent
         /\ wire' = [invoked |-> r.invoked, handed |-> r.handed,
                     wrap_live |-> r.wrap_live]
         /\ polled' = r.w.polled
         /\ contexts' = r.w.contexts
         /\ info_fd' = r.w.info_fd
         /\ openfds' = r.w.openfds
         /\ clients' = r.w.clients
         /\ iobufs' = r.w.iobufs
         /\ crashed' = r.w.crashed
         /\ call' = [op |-> "iobuff_send", arg |-> TheClient, data |-> <<>>,
                     flag |-> FALSE, returned |-> TRUE, ret |-> r.ret,
                     log |-> r.w.log, dispatch |-> <<>>]
    /\ UNCHANGED phase

BufNext == iobuff_append \/ iobuff_send

BufSpec == BufInit /\ [][BufNext]_vars

(***************************************************************************)
(* The drain specification.  It fills a buffer as BufSpec does, with       *)
(* appends and sends in any order, and then drains it: from begin_drain on *)
(* the caller only invokes iobuff_send, once per readiness notification,   *)
(* whatever each invocation returns.  The bytes play no part in the        *)
(* counts, so all of them are 0 here.  While draining, `unsent` is the     *)
(* number of bytes pending at begin_drain less the counts returned since,  *)
(* call.arg the number pending at begin_drain, and phase alternates        *)
(* between two values, so that an invocation that leaves the buffer as it  *)
(* was is a step too.                                                      *)
(***************************************************************************)
ZeroData == {[i \in 1 .. n |-> 0] : n \in 0 .. MaxLen}

AllZero(f) == \A i \in DOMAIN f : f[i] = 0

DrainPhases == {"draining", "draining_on"}

fill_append ==
    /\ phase = "bound"
    /\ ~crashed
    /\ \E data \in ZeroData, can_reallocate \in BOOLEAN :
         \E env \in {e \in AppendEnvs(buffer, data, can_reallocate) : AllZero(e.fresh)} :
           \E r \in {iobuff_append_run(buffer, data, can_reallocate, env)} :
           /\ buffer' = r.buffer
           /\ crashed' = r.crashed
           /\ unsent' = unsent + r.ret
           /\ call' = [op |-> "iobuff_append", arg |-> buffer.size, data |-> data,
                       flag |-> can_reallocate, returned |-> ~r.crashed,
                       ret |-> r.ret, log |-> <<>>, dispatch |-> <<>>]
    /\ wire' = NoWire
    /\ UNCHANGED <<phase, polled, contexts, info_fd, openfds, clients, iobufs>>

\* One invocation of iobuff_send by the caller, who goes on to `next`.
send_call(pending, next) ==
    /\ ~crashed
    /\ TheClient \in DOMAIN clients
    /\ \E env \in {e \in SendEnvs(buffer) : AllZero(e.oob)} :
         \E r \in {iobuff_send_run(World, TheClient, buffer, env)} :
         /\ buffer' = r.buffer
         /\ unsent' = IF r.ret > 0 THEN unsent - r.ret ELSE unsent
         /\ wire' = [invoked |-> r.invoked, handed |-> r.handed,
                     wrap_live |-> r.wrap_live]
         /\ call' = [op |-> "iobuff_send", arg |-> pending, data |-> <<>>,
                     flag |-> FALSE, returned |-> TRUE, ret |-> r.ret,
                     log |-> r.w.log, dispatch |-> <<>>]
    /\ phase' = next
    /\ UNCHANGED <<polled, contexts, info_fd, openfds, clients, iobufs, crashed>>

fill_send == phase = "bound" /\ send_call(0, "bound")

begin_drain ==
    /\ phase = "bound"
    /\ ~crashed
    /\ phase' = "draining"
    /\ unsent' = Wrap(buffer.head - buffer.tail)
    /\ call' = [NoCall EXCEPT !.op = "begin_drain",
                              !.arg = Wrap(buffer.head - buffer.tail)]
    /\ wire' = NoWire
    /\ UNCHANGED <<polled, contexts, info_fd, openfds, clients, iobufs, crashed,
                   buffer>>

drain_send ==
    /\ phase \in DrainPhases
    /\ send_call(call.arg, IF phase = "draining" THEN "draining_on" ELSE "draining")

DrainNext == fill_append \/ fill_send \/ begin_drain \/ drain_send

\* The caller keeps invoking iobuff_send while it drains.
DrainSpec == BufInit /\ [][DrainNext]_vars /\ WF_vars(drain_send)

(***************************************************************************)
(* The registry specification.  It starts from the registry returned by    *)
(* create_pollfds and applies add_event, remove_event and poll_events to   *)
(* it, every descriptor of Fds being open; `call` holds the last call, its *)
(* descriptor in arg and its event mask in data.                           *)
(***************************************************************************)
\* Event masks handed to add_event.
RegMasks == {{"POLLIN"}, {"POLLOUT"}}

\* Descriptors handed to add_event and remove_event: a watched one, or the
\* lowest one that is not watched (the one the kernel hands out next).  The
\* registry compares descriptors for equality only, so any other unwatched
\* descriptor behaves as this one does.
RegFds(p) == WatchedFds(p) \cup {Lowest(Fds \ WatchedFds(p))}

RegCall(op, fd, events, ret) ==
    [op |-> op, arg |-> fd, data |-> events, flag |-> FALSE,
     returned |-> TRUE, ret |-> ret, log |-> <<>>, dispatch |-> <<>>]

RegInit ==
    /\ phase = "new"
    /\ polled = create_pollfds(MaxDescs)
    /\ contexts = NULL
    /\ info_fd = INVALID_FD
    /\ openfds = Fds
    /\ clients = EmptyMap
    /\ iobufs = EmptyMap
    /\ crashed = FALSE
    /\ call = [NoCall EXCEPT !.data = {}]
    /\ buffer = NoBuffer
    /\ unsent = 0
    /\ wire = NoWire

call_add_event ==
    /\ \E fd \in RegFds(polled), events \in RegMasks :
         \E r \in {add_event(polled, fd, events)} :
           /\ polled' = r.pollfds
           /\ call' = RegCall("add_event", fd, events, r.ret)
    /\ UNCHANGED <<phase, contexts, info_fd, openfds, clients, iobufs, crashed, bufVars>>

call_remove_event ==
    /\ \E fd \in RegFds(polled) :
           /\ polled' = remove_event(polled, fd)
           /\ call' = RegCall("remove_event", fd, {}, 0)
    /\ UNCHANGED <<phase, contexts, info_fd, openfds, clients, iobufs, crashed, bufVars>>

call_poll_events ==
    /\ \E env \in PollEnvs(polled, openfds) :
         \E r \in {poll_events(polled, openfds, env)} :
           /\ polled' = r.pollfds
           /\ call' = RegCall("poll_events", 0, {}, r.ret)
    /\ UNCHANGED <<phase, contexts, info_fd, openfds, clients, iobufs, crashed, bufVars>>

RegNext == call_add_event \/ call_remove_event \/ call_poll_events

RegSpec == RegInit /\ [][RegNext]_vars

(***************************************************************************)
(* Properties of the server lifecycle, checked under Spec.                 *)
(***************************************************************************)
\* The watched slots of a registry, and the descriptors among them that are
\* not the listener.
WatchedEntries(p) == [i \in WatchedIdx(p) |-> p.fds[i]]

ClientFdsWatched == WatchedFds(polled) \ {info_fd}
TableKeys == DOMAIN contexts.entries

\* The watched slots that hold descriptor d.
SlotsOf(p, d) == {i \in WatchedIdx(p) : p.fds[i].fd = d}

\* The server is up: as_bind built the registry and the table, and the last
\* call returned to its caller.
Serving == phase = "bound" /\ polled /= NULL /\ contexts /= NULL /\ call.returned

\* The step is one call of the named function.
Called(op) == call'.op = op /\ vars' /= vars

\* Position of the first effect `op` in a call's log, 0 when absent.
LogIndex(log, op) ==
    IF \E i \in 1 .. Len(log) : log[i].op = op
    THEN CHOOSE i \in 1 .. Len(log) :
           log[i].op = op /\ \A j \in 1 .. (i - 1) : log[j].op /= op
    ELSE 0

\* C1: after any sequence of as_accept and as_disconnect calls, the
\* non-listener descriptors watched in the registry are exactly the keys of
\* the lookup table.
C1_RegistryAgreesWithTable == Serving => ClientFdsWatched = TableKeys

\* C2: an as_accept on a server that has its registry and table and that
\* fails, at whichever step, returns failure and leaves the watched entries
\* of the registry and the entries of the table as they were before the call.
C2_FailedAcceptUnwinds ==
    [][(/\ Called("as_accept")
        /\ polled /= NULL
        /\ contexts /= NULL
        /\ ~(call'.returned /\ call'.ret /= 0))
        => /\ call'.returned
           /\ call'.ret = 0
           /\ WatchedEntries(polled') = WatchedEntries(polled)
           /\ contexts'.entries = contexts.entries]_vars

\* C5: as_disconnect of an accepted connection releases the context and the
\* storage of both of its buffers.
C5_DisconnectFreesBuffers ==
    [][(Called("as_disconnect") /\ call'.arg \in DOMAIN clients)
        => /\ call'.arg \notin DOMAIN clients'
           /\ clients[call'.arg].input \notin DOMAIN iobufs'
           /\ clients[call'.arg].output \notin DOMAIN iobufs']_vars

\* C6: as_disconnect of a live connection with descriptor d lowers the watched
\* count by exactly one, leaves d unwatched and absent from the table, closes
\* d, and removes both references before it frees the context.
C6_DisconnectRemovesBoth ==
    [][(Called("as_disconnect") /\ call'.arg \in DOMAIN clients)
        => LET d == clients[call'.arg].fd
               log == call'.log
           IN /\ polled'.polled = polled.polled - 1
              /\ d \notin WatchedFds(polled')
              /\ htable_get(contexts', d) = 0
              /\ d \in openfds
              /\ d \notin openfds'
              /\ call'.arg \notin DOMAIN clients'
              /\ 0 < LogIndex(log, "remove_event")
              /\ LogIndex(log, "remove_event") < LogIndex(log, "free_client")
              /\ 0 < LogIndex(log, "htable_remove")
              /\ LogIndex(log, "htable_remove") < LogIndex(log, "free_client")]_vars

\* A disconnect has run while another connection stays watched.
C6_Witness ==
    /\ call.op = "as_disconnect"
    /\ call.returned
    /\ polled /= NULL
    /\ polled.polled = 2
    /\ DOMAIN clients /= {}

\* The entries of one as_poll's dispatch trace of the given kind.
Entries(trace, kind) == {j \in 1 .. Len(trace) : trace[j].kind = kind}

\* The listener was registered by as_bind and the server is not shut down.
Listening == phase = "bound" /\ polled /= NULL /\ contexts /= NULL

\* C16: from the as_bind that registered the listener until as_cleanup, after
\* any sequence of as_accept (succeeding or failing), as_disconnect and
\* as_poll calls, slot 0 of the registry is watched and holds the listening
\* descriptor.
C16_ListenerInSlotZero ==
    Listening => /\ polled.polled >= 1
                 /\ polled.fds[0].fd = info_fd
                 /\ polled.fds[0].events = ListenerEvents

\* An as_poll in which a callback disconnected the connection of slot 1 while
\* another connection was watched behind it.
C16_Witness ==
    /\ Listening
    /\ call.op = "as_poll"
    /\ call.returned
    /\ Entries(call.dispatch, "disconnect") /= {}
    /\ polled.polled = 2
    /\ polled.fds[2].fd = -1
    /\ polled.fds[2].events /= {}

\* C17: in one as_poll iteration, every connection that is watched with a
\* non-zero observed mask after poll() and is still connected when the
\* iteration ends has had its callback invoked exactly once, also when
\* callbacks of the iteration call as_disconnect.
C17_ReadyConnectionsDispatchedOnce ==
    [][(Called("as_poll") /\ call'.returned /\ call'.ret = 0)
        => \A r \in Entries(call'.dispatch, "ready") :
             LET e == call'.dispatch[r] IN
             (/\ e.fd /= info_fd
              /\ e.client \in DOMAIN clients
              /\ clients[e.client].fd = e.fd
              /\ e.client \in DOMAIN clients'
              /\ e.fd \in WatchedFds(polled'))
             => Cardinality({j \in Entries(call'.dispatch, "client") :
                               /\ call'.dispatch[j].fd = e.fd
                               /\ call'.dispatch[j].client = e.client}) = 1]_vars

\* Registry, table and contexts agree: the watched descriptors other than the
\* listener are the keys of the table, every key maps to a live context of
\* that descriptor, every live context is mapped, and every watched
\* descriptor is open.
InStep ==
    /\ Listening
    /\ ~crashed
    /\ polled.fds[0].fd = info_fd
    /\ ClientFdsWatched = TableKeys
    /\ WatchedFds(polled) \subseteq openfds
    /\ \A d \in TableKeys :
          /\ contexts.entries[d] \in DOMAIN clients
          /\ clients[contexts.entries[d]].fd = d
    /\ \A c \in DOMAIN clients : htable_get(contexts, clients[c].fd) = c

\* The step is a successful as_accept, an as_disconnect, or an as_poll whose
\* listener callback made no failing as_accept.
SuccessfulCall ==
    /\ call'.returned
    /\ \/ Called("as_accept") /\ call'.ret /= 0
       \/ Called("as_disconnect")
       \/ /\ Called("as_poll")
          /\ \A j \in Entries(call'.dispatch, "accepted") :
                call'.dispatch[j].client /= 0

\* C18: after any sequence of successful as_accept calls and as_disconnect
\* calls, the connections stay mapped to their own contexts, and every
\* callback as_poll invokes for an event observed on descriptor d receives
\* the context created by the accept that returned d, with the mask observed
\* on d.
C18_CallbacksGetOwnContext ==
    [][(InStep /\ SuccessfulCall)
        => /\ InStep'
           /\ \A c \in (DOMAIN clients) \cap (DOMAIN clients') : clients'[c] = clients[c]
           /\ Called("as_poll") =>
                /\ Entries(call'.dispatch, "freed") = {}
                /\ Entries(call'.dispatch, "not_found") = {}
                /\ \A j \in Entries(call'.dispatch, "client") :
                      LET e == call'.dispatch[j] IN
                      /\ \/ e.client \in DOMAIN clients /\ clients[e.client].fd = e.fd
                         \/ \E k \in Entries(call'.dispatch, "accepted") :
                              /\ k < j
                              /\ call'.dispatch[k].fd = e.fd
                              /\ call'.dispatch[k].client = e.client
                      /\ \E r \in Entries(call'.dispatch, "ready") :
                            /\ call'.dispatch[r].fd = e.fd
                            /\ call'.dispatch[r].client = e.client
                            /\ call'.dispatch[r].revents = e.revents]_vars

\* Two connections were accepted, the first was disconnected and a third
\* accepted on its descriptor; an as_poll then called back both survivors,
\* with different observed masks.
C18_Witness ==
    /\ InStep
    /\ call.op = "as_poll"
    /\ call.returned
    /\ polled.polled = 3
    /\ polled.fds[1].fd > polled.fds[2].fd
    /\ \E j, k \in Entries(call.dispatch, "client") :
          /\ call.dispatch[j].fd = polled.fds[1].fd
          /\ call.dispatch[k].fd = polled.fds[2].fd
          /\ call.dispatch[j].revents /= call.dispatch[k].revents

\* C19: when poll() fails, as_poll returns failure, invokes no callback,
\* does not call poll() again, and leaves the registry, the table, the
\* contexts and the descriptors as they were.
C19_FailedPollDispatchesNothing ==
    [][(Called("as_poll") /\ LogIndex(call'.log, "poll_failed") > 0)
        => /\ call'.returned
           /\ call'.ret = -1
           /\ call'.dispatch = <<>>
           /\ Len(call'.log) = 1
           /\ polled' = polled
           /\ contexts' = contexts
           /\ clients' = clients
           /\ openfds' = openfds
           /\ ~crashed']_vars

\* poll() failed on a registry that watches a connection and still holds the
\* masks observed by an earlier poll().
C19_Witness ==
    /\ call.op = "as_poll"
    /\ call.returned
    /\ call.ret = -1
    /\ polled /= NULL
    /\ polled.polled >= 2
    /\ \E i \in WatchedIdx(polled) : polled.fds[i].revents /= {}

\* C20: as_bind returns 0 exactly when every step succeeded, the registering
\* of the listener being the last of them, and -1 otherwise; it never returns
\* 0 with the registry or the table destroyed.
C20_BindResult ==
    [][Called("as_bind")
        => /\ call'.returned
           /\ call'.ret \in {0, -1}
           /\ call'.ret = 0 <=> LogIndex(call'.log, "add_event") > 0
           /\ call'.ret = 0 =>
                 /\ polled' /= NULL
                 /\ contexts' /= NULL
                 /\ info_fd' \in WatchedFds(polled')]_vars

\* The positions in a call's log of a close(2) on descriptor d, successful or
\* not.
Closes(log, d) ==
    {j \in 1 .. Len(log) : log[j].op \in {"close", "close_EBADF"} /\ log[j].arg = d}

\* C21: as_cleanup calls close once on every descriptor watched in the
\* registry at the time of the call and on no other, then releases the
\* registry and then the lookup table; no watched descriptor is open
\* afterwards, and no connection context and no connection buffer is freed.
C21_CleanupClosesWatched ==
    [][(Called("as_cleanup") /\ polled /= NULL)
        => LET log == call'.log IN
           /\ call'.returned
           /\ \A d \in WatchedFds(polled) : Cardinality(Closes(log, d)) = 1
           /\ \A j \in 1 .. Len(log) :
                 log[j].op \in {"close", "close_EBADF"}
                 => /\ log[j].arg \in WatchedFds(polled)
                    /\ j < LogIndex(log, "destroy_pollfds")
           /\ WatchedFds(polled) \cap openfds' = {}
           /\ openfds' = openfds \ WatchedFds(polled)
           /\ 0 < LogIndex(log, "destroy_pollfds")
           /\ LogIndex(log, "destroy_pollfds") < LogIndex(log, "htable_destroy")
           /\ Len(log) = polled.polled + 2
           /\ polled' = NULL
           /\ contexts' = NULL
           /\ clients' = clients
           /\ iobufs' = iobufs]_vars

\* as_cleanup ran on a server watching the listener and two connections,
\* whose contexts and buffers are still allocated afterwards.
C21_Witness ==
    /\ call.op = "as_cleanup"
    /\ call.returned
    /\ phase = "cleaned"
    /\ Cardinality({j \in 1 .. Len(call.log) : call.log[j].op = "close"}) = 3
    /\ Cardinality(DOMAIN clients) = 2
    /\ Cardinality(DOMAIN iobufs) = 4
    /\ info_fd \notin openfds

\* C24: a successful as_accept returns a new context whose callback is the
\* given handler, whose descriptor d is watched with interest
\* read|write|hangup and an empty observed mask, whose table entry under d is
\* that context, and whose input and output buffers are distinct, empty and
\* of capacity BUFFER_SIZE; the watched count grew by exactly one.
C24_AcceptBuildsConnection ==
    [][(/\ Called("as_accept")
        /\ polled /= NULL
        /\ contexts /= NULL
        /\ call'.returned
        /\ call'.ret /= 0)
        => LET c == call'.ret IN
           /\ c \notin DOMAIN clients
           /\ c \in DOMAIN clients'
           /\ LET d == clients'[c].fd
                  input == clients'[c].input
                  output == clients'[c].output
              IN /\ clients'[c].event_handler = call'.arg
                 /\ d \in openfds'
                 /\ Cardinality(SlotsOf(polled', d)) = 1
                 /\ \A i \in SlotsOf(polled', d) :
                       /\ polled'.fds[i].events = ClientEvents
                       /\ polled'.fds[i].revents = {}
                 /\ htable_get(contexts', d) = c
                 /\ input /= output
                 /\ {input, output} \subseteq DOMAIN iobufs'
                 /\ {input, output} \cap DOMAIN iobufs = {}
                 /\ \A b \in {input, output} :
                       /\ iobufs'[b].size = BUFFER_SIZE
                       /\ iobufs'[b].head = 0
                       /\ iobufs'[b].tail = 0
                 /\ polled'.polled = polled.polled + 1]_vars

\* The positions in a call's log of the effect `op` on `arg`.
Effects(log, op, arg) ==
    {j \in 1 .. Len(log) : log[j].op = op /\ log[j].arg = arg}

\* C25: on every failure path of as_accept the unwind releases only what was
\* constructed: iobuff_free is never called on a buffer whose allocation
\* failed, so its assert holds on every call and the call returns; and the
\* context, the socket and each buffer that were constructed are released
\* exactly once.
C25_UnwindReleasesConstructed ==
    [][(/\ Called("as_accept")
        /\ polled /= NULL
        /\ contexts /= NULL
        /\ ~(call'.returned /\ call'.ret /= 0))
        => LET log == call'.log IN
           /\ Effects(log, "iobuff_free_NULL", 0) = {}
           /\ Effects(log, "abort_in_iobuff_free", 0) = {}
           /\ ~crashed'
           /\ call'.returned
           /\ \A j \in 1 .. Len(log) :
                 /\ log[j].op = "client_alloc"
                    => Cardinality(Effects(log, "free_client", log[j].arg)) = 1
                 /\ log[j].op = "server_accept"
                    => Cardinality(Effects(log, "close", log[j].arg)) = 1
                 /\ log[j].op = "iobuff_alloc"
                    => Cardinality(Effects(log, "iobuff_free", log[j].arg)) = 1
                 /\ log[j].op = "iobuff_free"
                    => Effects(log, "iobuff_alloc", log[j].arg) /= {}]_vars

\* C26: in every as_poll iteration, after any sequence of as_accept
\* (succeeding or failing), as_disconnect and as_poll calls, the lookup made
\* for a non-listener slot with a non-zero observed mask finds a context:
\* as_poll never calls through a not-found lookup result.
C26_LookupFindsContext ==
    [][(Called("as_poll") /\ Listening)
        => /\ Entries(call'.dispatch, "not_found") = {}
           /\ Effects(call'.log, "abort_null_client", 0) = {}]_vars

\* C28: after a successful as_bind, an as_poll iteration in which the
\* listener's slot has a non-zero observed mask invokes the top-level handler
\* exactly once, with that mask, before any connection callback of the
\* iteration; when the listener's observed mask is zero the top-level handler
\* is not invoked.
C28_TopLevelHandlerInvoked ==
    [][(Called("as_poll") /\ Listening /\ LogIndex(call'.log, "poll") > 0)
        => LET trace == call'.dispatch
               observed == {r \in Entries(trace, "ready") : trace[r].fd = info_fd}
           IN /\ Entries(trace, "unset_handler") = {}
              /\ observed = {} => Entries(trace, "top_level") = {}
              /\ \A r \in observed :
                    /\ Cardinality(Entries(trace, "top_level")) = 1
                    /\ \A t \in Entries(trace, "top_level") :
                          /\ trace[t].fd = info_fd
                          /\ trace[t].revents = trace[r].revents
                          /\ \A j \in Entries(trace, "client") : t < j]_vars

\* C29: within one as_poll iteration, whatever connections the callbacks
\* disconnect (their own or others), as_poll looks up and calls back no
\* context after as_disconnect was called on it.
C29_NoCallbackAfterDisconnect ==
    [][Called("as_poll")
        => LET trace == call'.dispatch IN
           \A d \in Entries(trace, "disconnect") :
             \A j \in Entries(trace, "client") \cup Entries(trace, "freed") :
               d < j => trace[j].client /= trace[d].client]_vars

\* An as_poll returned in which two connections were ready and the callback
\* of the first disconnected the second.
C29_Witness ==
    /\ call.op = "as_poll"
    /\ call.returned
    /\ ~crashed
    /\ \E j \in Entries(call.dispatch, "client") :
         \E d \in Entries(call.dispatch, "disconnect") :
           /\ j < d
           /\ call.dispatch[d].client /= call.dispatch[j].client
           /\ \E r \in Entries(call.dispatch, "ready") :
                 /\ call.dispatch[r].client = call.dispatch[d].client
                 /\ call.dispatch[r].fd = call.dispatch[d].fd

\* C30: between as_bind and as_cleanup every descriptor watched in the
\* registry is open, after any sequence of as_accept (succeeding or failing)
\* and as_disconnect calls, and no call, the final as_cleanup included, closes
\* a descriptor that is already closed.
C30_WatchedAreOpen ==
    /\ Listening => WatchedFds(polled) \subseteq openfds
    /\ \A j \in 1 .. Len(call.log) : call.log[j].op /= "close_EBADF"

(***************************************************************************)
(* Properties of the io_buffer, checked under BufSpec.                     *)
(***************************************************************************)
\* Free space by the cursors alone.
FreeSpace(b) == b.size - Wrap(b.head - b.tail)

\* C3: an append that grows the buffer keeps the pending bytes: afterwards the
\* range tail..head reads the old pending bytes followed by the new ones.
C3_GrowthKeepsPending ==
    [][(Called("iobuff_append") /\ buffer'.size > buffer.size)
        => Pending(buffer') = Pending(buffer) \o call'.data]_vars

\* C4: what iobuff_send hands to send() is exactly the pending bytes from tail
\* to head, in order, also when the range wraps past the end of the storage.
C4_SendHandsPending ==
    [][(Called("iobuff_send") /\ wire'.invoked)
        => wire'.handed = Pending(buffer)]_vars

\* C7: head - tail, as an unsigned difference, never exceeds the capacity; the
\* buffer is empty exactly when no byte is unsent and full exactly when
\* capacity-many are.
C7_PendingWithinCapacity ==
    /\ Wrap(buffer.head - buffer.tail) \in 0 .. buffer.size
    /\ Wrap(buffer.head - buffer.tail) = unsent
    /\ iobuff_empty(buffer) <=> unsent = 0
    /\ iobuff_full(buffer) <=> unsent = buffer.size

\* A grown buffer that is full with the head cursor wrapped below the tail.
C7_Witness ==
    /\ buffer.heap
    /\ iobuff_full(buffer)
    /\ buffer.head < buffer.tail

\* C8: iobuff_space is capacity - ((head - tail) mod 2^w), whichever of the
\* two cursors is numerically the larger.
C8_SpaceIsCapacityMinusPending == iobuff_space(buffer) = FreeSpace(buffer)

\* C9: without growth, an append of more bytes than the free space f of a
\* non-full buffer writes the first f bytes, returns f, advances head by f and
\* leaves tail, capacity and the pending bytes alone.
C9_PartialAppend ==
    [][(/\ Called("iobuff_append")
        /\ ~call'.flag
        /\ Len(call'.data) > 0
        /\ ~iobuff_full(buffer)
        /\ FreeSpace(buffer) < Len(call'.data))
        => LET f == FreeSpace(buffer) IN
           /\ call'.returned
           /\ call'.ret = f
           /\ buffer'.head = Wrap(buffer.head + f)
           /\ buffer'.tail = buffer.tail
           /\ buffer'.size = buffer.size
           /\ Pending(buffer') = Pending(buffer) \o SubSeq(call'.data, 1, f)]_vars

\* A partial append without growth whose bytes went in on both sides of the
\* end of the storage.
C9_Witness ==
    /\ call.op = "iobuff_append"
    /\ ~call.flag
    /\ Len(call.data) = 3
    /\ call.ret = 2
    /\ BitAnd(buffer.head, buffer.size - 1) = 1

\* C10: iobuff_send on an empty buffer returns 0, calls no send() and changes
\* nothing; when send() accepts n bytes the tail advances by n and the head
\* stays; when send() fails the call fails, both cursors stay, and the client
\* stays watched and in the table.
C10_SendOutcomes ==
    [][Called("iobuff_send")
        => /\ iobuff_empty(buffer)
                => call'.ret = 0 /\ ~wire'.invoked /\ buffer' = buffer
           /\ (wire'.invoked /\ call'.ret >= 0)
                => /\ buffer'.tail = Wrap(buffer.tail + call'.ret)
                   /\ buffer'.head = buffer.head
           /\ (wire'.invoked /\ call'.ret < 0)
                => /\ call'.ret = -1
                   /\ buffer' = buffer
                   /\ WatchedEntries(polled') = WatchedEntries(polled)
                   /\ contexts' = contexts
                   /\ TheClient \in DOMAIN clients'
                   /\ clients[TheClient].fd \in WatchedFds(polled')
                   /\ htable_get(contexts', clients[TheClient].fd) = TheClient]_vars

\* send() failed with bytes pending.
C10_Witness ==
    /\ call.op = "iobuff_send"
    /\ wire.invoked
    /\ call.ret < 0
    /\ ~iobuff_empty(buffer)

\* C31: an iobuff_append of len > 0 bytes with growth allowed on a buffer that
\* is not full writes all len bytes (they are the last len bytes pending
\* afterwards), returns len and advances head by len when the reallocation
\* succeeds or none is needed; when the reallocation fails it returns 0 and
\* leaves head, tail, capacity and contents as they were.
C31_GrowingAppendTakesAll ==
    [][(/\ Called("iobuff_append")
        /\ Len(call'.data) > 0
        /\ call'.flag
        /\ Wrap(buffer.head - buffer.tail) /= buffer.size)
        => IF /\ append_reallocates(buffer, call'.data, TRUE)
              /\ buffer'.size = buffer.size
           THEN /\ call'.ret = 0
                /\ buffer' = buffer
           ELSE /\ call'.returned
                /\ call'.ret = Len(call'.data)
                /\ buffer'.head = Wrap(buffer.head + Len(call'.data))
                /\ buffer'.tail = buffer.tail
                /\ LET after == Pending(buffer') IN
                   SubSeq(after, Len(after) - Len(call'.data) + 1, Len(after))
                     = call'.data]_vars

\* C32: the temporary region iobuff_send allocates to straighten a wrapped
\* pending range is released before iobuff_send returns, on every path, the
\* one on which send() fails included.
C32_TemporaryRegionReleased ==
    [][Called("iobuff_send") => (call'.returned => ~wire'.wrap_live)]_vars

PowerOfTwo(n) == n >= 1 /\ BitAnd(n, n - 1) = 0

\* C23: the capacity of a buffer is a power of two in every state and no
\* step lowers it; an iobuff_append that grows a buffer of capacity C for a
\* request of length len leaves the least power of two >= C + len.
C23_CapacityPowerOfTwo ==
    /\ [](PowerOfTwo(buffer.size))
    /\ [][/\ buffer'.size >= buffer.size
          /\ buffer'.size /= buffer.size
             => /\ Called("iobuff_append")
                /\ call'.arg = buffer.size
                /\ LET need == buffer.size + Len(call'.data) IN
                   /\ PowerOfTwo(buffer'.size)
                   /\ buffer'.size >= need
                   /\ \A n \in 1 .. (buffer'.size - 1) :
                         ~(PowerOfTwo(n) /\ n >= need)]_vars

\* An append of two bytes grew a buffer of capacity 1 to capacity 4, the
\* sum 3 not being a power of two.
C23_Witness ==
    /\ call.op = "iobuff_append"
    /\ call.returned
    /\ call.arg = 1
    /\ Len(call.data) = 2
    /\ buffer.size = 4
    /\ buffer.heap

(***************************************************************************)
(* Properties of a drain, checked under DrainSpec.                         *)
(***************************************************************************)
Draining == phase \in DrainPhases

\* The buffer is empty and the counts returned since begin_drain add up to
\* the number of bytes that were pending then.
Drained == Draining /\ iobuff_empty(buffer) /\ unsent = 0

\* The last invocation called send(), which failed or accepted no byte.
SendRefused == Draining /\ call.op = "iobuff_send" /\ wire.invoked /\ call.ret <= 0

\* The last invocation returned failure without calling send(): the
\* temporary region for a wrapped range could not be allocated.
AllocRefused ==
    Draining /\ call.op = "iobuff_send" /\ ~wire.invoked /\ call.ret = -1

WatchedSeq(p) == [i \in 1 .. p.polled |-> p.fds[i - 1]]
Survivors(p, d) ==
    LET Keep(e) == e.fd /= d IN SelectSeq(WatchedSeq(p), Keep)

\* C11: add_event(d, e1) that registered or updated d, followed by
\* add_event(d, e2) with e2 /= e1, leaves exactly one watched entry for d,
\* whose requested mask is e2 and whose observed mask is cleared.
C11_SecondAddWins ==
    [][(/\ Called("add_event")
        /\ call.op = "add_event"
        /\ call.ret = 0
        /\ call.arg = call'.arg
        /\ call.data /= call'.data)
        => /\ Cardinality(SlotsOf(polled', call'.arg)) = 1
           /\ \A i \in SlotsOf(polled', call'.arg) :
                 /\ polled'.fds[i].events = call'.data
                 /\ polled'.fds[i].revents = {}]_vars

\* C12: add_event fails only when the descriptor is not watched and the
\* count equals the capacity; for a watched descriptor it succeeds at every
\* count, replaces the entry's event mask, clears its observed mask and
\* leaves the count and every other entry alone.
C12_AddFailsOnlyWhenNewAndFull ==
    [][Called("add_event")
        => LET d == call'.arg
               watched == d \in WatchedFds(polled)
           IN /\ call'.ret < 0 => (~watched /\ polled.polled = polled.length)
              /\ watched =>
                    /\ call'.ret = 0
                    /\ polled'.polled = polled.polled
                    /\ \E i \in SlotsOf(polled, d) :
                          polled'.fds = [polled.fds EXCEPT ![i].events = call'.data,
                                                           ![i].revents = {}]]_vars

\* C13: remove_event(fd) on k watched entries that include fd leaves k - 1
\* watched entries in slots 0 .. k-2, in their former relative order with
\* their event masks, and every slot from k - 1 on invalid; when fd is not
\* watched the registry is unchanged.
C13_RemoveCompacts ==
    [][Called("remove_event")
        => LET d == call'.arg
               k == polled.polled
               kept == Survivors(polled, d)
           IN IF d \in WatchedFds(polled)
              THEN /\ polled'.polled = k - 1
                   /\ polled'.length = polled.length
                   /\ Len(kept) = k - 1
                   /\ \A i \in 0 .. (k - 2) :
                         /\ polled'.fds[i].fd = kept[i + 1].fd
                         /\ polled'.fds[i].events = kept[i + 1].events
                   /\ \A i \in (k - 1) .. (polled.length - 1) :
                         polled'.fds[i].fd = -1
              ELSE polled' = polled]_vars

\* An entry was removed from below two others of a full registry, which the
\* packing loop moved down: the last slot was vacated and keeps its old masks.
C13_Witness ==
    /\ call.op = "remove_event"
    /\ call.arg \notin WatchedFds(polled)
    /\ polled.polled = MaxDescs - 1
    /\ polled.polled >= 2
    /\ polled.fds[0].events /= polled.fds[1].events
    /\ polled.fds[MaxDescs - 1].fd = -1
    /\ polled.fds[MaxDescs - 1].events /= {}

\* C14: add_event of a descriptor that is not watched, on a registry whose
\* count equals its capacity, returns failure and leaves the count and every
\* entry's descriptor, event mask and observed mask unchanged.
C14_FullAddChangesNothing ==
    [][(/\ Called("add_event")
        /\ call'.arg \notin WatchedFds(polled)
        /\ polled.polled = polled.length)
        => /\ call'.ret = -1
           /\ polled' = polled]_vars

\* A refused add on a full registry some of whose entries have events observed.
C14_Witness ==
    /\ call.op = "add_event"
    /\ call.ret = -1
    /\ call.arg \notin WatchedFds(polled)
    /\ polled.polled = polled.length
    /\ \E i \in WatchedIdx(polled) : polled.fds[i].revents /= {}

\* C15: after create_pollfds and any sequence of add_event and remove_event
\* calls, the count is at most the capacity, no descriptor is in two watched
\* slots, slots below the count hold valid descriptors and slots at or above
\* the count hold -1.
C15_RegistryWellFormed ==
    /\ polled.polled <= polled.length
    /\ \A i, j \in WatchedIdx(polled) :
          polled.fds[i].fd = polled.fds[j].fd => i = j
    /\ \A i \in DOMAIN polled.fds :
          IF i < polled.polled THEN polled.fds[i].fd >= 0 ELSE polled.fds[i].fd = -1

\* The first of two watched entries was removed and the second moved down.
C15_Witness ==
    /\ call.op = "remove_event"
    /\ polled.polled = 1
    /\ polled.fds[0].fd >= 0
    /\ polled.fds[1].fd = -1
    /\ polled.fds[1].events /= {}

=============================================================================
